---- MODULE Spec2Model ----
(***************************************************************************)
(* A model of sonos_exporter (src/main.go): the Prometheus collector that  *)
(* resolves its targets (static list or SSDP Search), fans out one worker  *)
(* per target, joins them and observes the cycle duration, together with   *)
(* the free-text ifconfig parser used by fetchIfconfig.                    *)
(*                                                                         *)
(* Texts are sequences of tokens.  A token stands for the characters it is *)
(* written with: a space, a newline, a tab, a word, a direction tag (RX,   *)
(* TX) or a counter keyword with its colon and the digits that follow it.  *)
(* The text is the concatenation of its tokens, so the regular expressions *)
(* of src/main.go:540-555 are evaluated over token positions the way Go's  *)
(* regexp evaluates them over characters: leftmost match first, `.*`       *)
(* greedy and never crossing a newline.                                    *)
(***************************************************************************)
EXTENDS Integers, Sequences, FiniteSets, Bags, TLC

VARIABLES
    targets,      \* c.targets, the static target list given to newCollector
    pc,           \* position of the Collect call of the current cycle
    cycle,        \* number of the current cycle (scrape)
    received,     \* Search: datagrams read so far in this call
    devices,      \* Search: headers of the accepted responses
    locs,         \* Search: its result
    searchErr,    \* Search: the error it returned ("" for nil)
    readErr,      \* Search: its last ReadFrom failed with an error, no timeout
    searchCalls,  \* number of calls of Search since process start
    resolved,     \* Collect: the local variable targets
    launched,     \* Collect: number of goroutines started by the loop
    wg,           \* Collect: counter of the sync.WaitGroup
    workers,      \* the goroutines of this cycle, by position in resolved
    sink,         \* ch: the samples sent in this cycle (a bag)
    collectionErrors,   \* value of the counter c.collectionErrors
    observations,       \* number of c.collectionDuration.Observe calls
    errorsAtStart,      \* collectionErrors when this cycle started
    history,      \* what ended before this cycle: failed searches and targets
    text,         \* parser runs: root.Command, the decoded report
    ppc,          \* parser runs: position
    got,          \* parser runs: regexpFloat of each pattern on text
    ret           \* parser runs: the map built by fetchIfconfig

vars == <<targets, pc, cycle, received, devices, locs, searchErr, readErr,
          searchCalls,
          resolved, launched, wg, workers, sink, collectionErrors,
          observations, errorsAtStart, history, text, ppc, got, ret>>

collectVars == <<targets, pc, cycle, received, devices, locs, searchErr, readErr,
                 searchCalls, resolved, launched, wg, workers, sink,
                 collectionErrors, observations, errorsAtStart, history>>

parseVars == <<text, ppc, got, ret>>

(***************************************************************************)
(* Bounds of the model.                                                    *)
(***************************************************************************)
MaxTargets == 2      \* longest static target list
MaxDatagrams == 2    \* most datagrams read in one discovery window
MaxCycles == 2       \* cycles run since process start
MaxLines == 4        \* most counter lines in a generated interface block
MaxVariant == 1      \* value variants of the generated counter lines

(***************************************************************************)
(* Tokens and texts.                                                       *)
(***************************************************************************)
Tok(k, w, d) == [k |-> k, w |-> w, d |-> d]

SP == Tok("sp", "", <<>>)
NL == Tok("nl", "", <<>>)
TAB == Tok("tab", "", <<>>)
RX == Tok("RX", "", <<>>)
TX == Tok("TX", "", <<>>)
W(s) == Tok("w", s, <<>>)

RECURSIVE Digits(_)
Digits(n) == IF n < 10 THEN <<n>> ELSE Append(Digits(n \div 10), n % 10)

\* the characters "kw:" followed by the decimal digits of n
Ctr(kw, n) == Tok(kw, "", Digits(n))

RECURSIVE Concat(_)
Concat(ss) == IF ss = <<>> THEN <<>> ELSE Head(ss) \o Concat(Tail(ss))

(***************************************************************************)
(* strconv.ParseFloat on a string of decimal digits, and atof.             *)
(***************************************************************************)
RECURSIVE ParseFloat(_)
ParseFloat(num) ==
    IF num = <<>> THEN 0
    ELSE 10 * ParseFloat(SubSeq(num, 1, Len(num) - 1)) + num[Len(num)]

atof(num) == IF num = <<>> THEN 0 ELSE ParseFloat(num)

(***************************************************************************)
(* The patterns.  Pattern(dir, kw) is regexp `dir.*kw:(\d+)`.              *)
(***************************************************************************)
Pattern(dir, kw) == [dir |-> dir, kw |-> kw]

rxBytesRe == Pattern("RX", "bytes")
rxPacketsRe == Pattern("RX", "packets")
rxPacketErrorsRe == Pattern("RX", "errors")
rxPacketDropsRe == Pattern("RX", "dropped")
rxPacketOverrunsRe == Pattern("RX", "overruns")
rxPacketFramesRe == Pattern("RX", "frame")
txBytesRe == Pattern("TX", "bytes")
txPacketsRe == Pattern("TX", "packets")
txPacketErrorsRe == Pattern("TX", "errors")
txPacketDropsRe == Pattern("TX", "dropped")
txPacketOverrunsRe == Pattern("TX", "overruns")
txPacketCarriersRe == Pattern("TX", "carrier")

Patterns == {rxBytesRe, rxPacketsRe, rxPacketErrorsRe, rxPacketDropsRe,
             rxPacketOverrunsRe, rxPacketFramesRe, txBytesRe, txPacketsRe,
             txPacketErrorsRe, txPacketDropsRe, txPacketOverrunsRe,
             txPacketCarriersRe}

Min(S) == CHOOSE x \in S : \A y \in S : x <= y
Max(S) == CHOOSE x \in S : \A y \in S : x >= y

\* the last position `.*` can reach from position i: it never matches a
\* newline
LineEnd(t, i) ==
    LET nls == {k \in (i + 1) .. Len(t) : t[k].k = "nl"}
    IN  IF nls = {} THEN Len(t) ELSE Min(nls) - 1

\* positions j at which `kw:(\d+)` matches after a match of `dir.*` begun at i
Ends(re, t, i) ==
    {j \in (i + 1) .. LineEnd(t, i) : t[j].k = re.kw /\ t[j].d # <<>>}

\* positions at which a match of the whole pattern begins
Starts(re, t) == {i \in 1 .. Len(t) : t[i].k = re.dir /\ Ends(re, t, i) # {}}

\* re.FindStringSubmatch(text): <<>> for no match, else <<whole, group 1>>;
\* the leftmost start, and from it the longest `.*` that lets the rest match
FindStringSubmatch(re, t) ==
    LET starts == Starts(re, t)
    IN  IF starts = {} THEN <<>>
        ELSE LET i == Min(starts)
                 j == Max(Ends(re, t, i))
             IN  <<SubSeq(t, i, j), t[j].d>>

regexpFloat(re, t) ==
    LET m == FindStringSubmatch(re, t)
    IN  IF Len(m) > 1 THEN atof(m[2]) ELSE 0

(***************************************************************************)
(* fetchIfconfig after the decode: split, skip blank blocks, name, stats.  *)
(***************************************************************************)
\* strings.Split(s, "\n\n")
RECURSIVE Split(_)
Split(s) ==
    LET cuts == {i \in 1 .. (Len(s) - 1) : s[i].k = "nl" /\ s[i + 1].k = "nl"}
    IN  IF cuts = {} THEN <<s>>
        ELSE LET i == Min(cuts)
             IN  <<SubSeq(s, 1, i - 1)>> \o Split(SubSeq(s, i + 2, Len(s)))

\* a test that skips only the empty block
IsBlank_OnlyEmpty(s) == s = <<>>

\* strings.TrimSpace(s) == ""
IsBlank(s) == \A i \in 1 .. Len(s) : s[i].k \in {"sp", "nl", "tab"}

\* ifaceNameRe.FindString(s), ifaceNameRe = `^[^ ]+`
ifaceName(s) ==
    LET spaces == {i \in 1 .. Len(s) : s[i].k = "sp"}
    IN  IF spaces = {} THEN s ELSE SubSeq(s, 1, Min(spaces) - 1)

stats(t) ==
    [rxBytes          |-> regexpFloat(rxBytesRe, t),
     rxPackets        |-> regexpFloat(rxPacketsRe, t),
     rxPacketErrors   |-> regexpFloat(rxPacketErrorsRe, t),
     rxPacketDrops    |-> regexpFloat(rxPacketDropsRe, t),
     rxPacketOverruns |-> regexpFloat(rxPacketOverrunsRe, t),
     rxPacketFrames   |-> regexpFloat(rxPacketFramesRe, t),
     txBytes          |-> regexpFloat(txBytesRe, t),
     txPackets        |-> regexpFloat(txPacketsRe, t),
     txPacketErrors   |-> regexpFloat(txPacketErrorsRe, t),
     txPacketDrops    |-> regexpFloat(txPacketDropsRe, t),
     txPacketOverruns |-> regexpFloat(txPacketOverrunsRe, t),
     txPacketCarriers |-> regexpFloat(txPacketCarriersRe, t)]

\* the field of stats that fetchIfconfig fills from a pattern
FieldOf(re) ==
    CASE re = rxBytesRe -> "rxBytes"
      [] re = rxPacketsRe -> "rxPackets"
      [] re = rxPacketErrorsRe -> "rxPacketErrors"
      [] re = rxPacketDropsRe -> "rxPacketDrops"
      [] re = rxPacketOverrunsRe -> "rxPacketOverruns"
      [] re = rxPacketFramesRe -> "rxPacketFrames"
      [] re = txBytesRe -> "txBytes"
      [] re = txPacketsRe -> "txPackets"
      [] re = txPacketErrorsRe -> "txPacketErrors"
      [] re = txPacketDropsRe -> "txPacketDrops"
      [] re = txPacketOverrunsRe -> "txPacketOverruns"
      [] re = txPacketCarriersRe -> "txPacketCarriers"

\* the loop over the blocks: a later block of the same name overwrites
RECURSIVE ParseBlocks(_, _)
ParseBlocks(blocks, m) ==
    IF blocks = <<>> THEN m
    ELSE LET b == Head(blocks)
             name == ifaceName(b)
             m2 == IF IsBlank(b) \/ name = <<>> THEN m
                   ELSE [n \in DOMAIN m \cup {name} |->
                            IF n = name THEN stats(b) ELSE m[n]]
         IN  ParseBlocks(Tail(blocks), m2)

EmptyMap == [n \in {} |-> 0]

ParseCommand(command) == ParseBlocks(Split(command), EmptyMap)

(***************************************************************************)
(* The world outside the process: locators, devices, reports, datagrams.   *)
(***************************************************************************)
Query == "urn:schemas-upnp-org:device:ZonePlayer:1"
OtherST == "urn:schemas-upnp-org:device:ZonePlayer:2"

LocD1 == "http://d1:1400/xml/device_description.xml"
LocD2 == "http://d2:1400/xml/device_description.xml"
LocBad == "http://d 3:1400/xml/device_description.xml"
LocEmpty == ""

\* what main builds from -targets: "http://" + t + "/xml/device_description.xml"
StaticLocators == {LocD1, LocD2, LocBad}

\* url.Parse(loc) returns an error: a space in the host
UrlParseFails(loc) == loc = LocBad

\* http.Get(u) can only fail for this u: unsupported protocol scheme ""
GetAlwaysFails(loc) == loc = LocEmpty

NoDevice == [DeviceType |-> "", RoomName |-> "", DisplayVersion |-> "",
             HardwareVersion |-> "", ModelName |-> "", ModelNumber |-> "",
             SerialNum |-> "", SoftwareVersion |-> "", UDN |-> ""]

\* the descriptor document served at a locator, decoded into Device
DeviceAt(loc) ==
    IF loc = LocD1
    THEN [DeviceType |-> Query, RoomName |-> "Kitchen", DisplayVersion |-> "15.9",
          HardwareVersion |-> "1.8.3.7-2", ModelName |-> "Sonos One",
          ModelNumber |-> "S13", SerialNum |-> "78-28-CA-0F-8B-0A:1",
          SoftwareVersion |-> "76.2-47270", UDN |-> "uuid:RINCON_7828CA0F8B0A01400"]
    ELSE [DeviceType |-> Query, RoomName |-> "Office", DisplayVersion |-> "15.9",
          HardwareVersion |-> "1.20.1.6-2", ModelName |-> "Sonos Play:1",
          ModelNumber |-> "S1", SerialNum |-> "B8-E9-37-2A-11-04:7",
          SoftwareVersion |-> "76.2-47270", UDN |-> "uuid:RINCON_B8E9372A110401400"]

Indent == <<SP, SP>>

\* the br0 block of TestMain_RegexpFloat, its address lines left out
Br0Block ==
    Concat(<<
      <<W("br0"), SP, W("Link"), SP, W("encap:Ethernet"), NL>>,
      Indent, <<W("UP"), SP, W("BROADCAST"), SP, W("MTU:1500"), NL>>,
      Indent, <<RX, SP, Ctr("packets", 591245), SP, Ctr("errors", 0), SP,
                Ctr("dropped", 9258), SP, Ctr("overruns", 0), SP,
                Ctr("frame", 0), NL>>,
      Indent, <<TX, SP, Ctr("packets", 30434), SP, Ctr("errors", 0), SP,
                Ctr("dropped", 0), SP, Ctr("overruns", 0), SP,
                Ctr("carrier", 0), NL>>,
      Indent, <<W("collisions:0"), SP, W("txqueuelen:0"), NL>>,
      Indent, <<RX, SP, Ctr("bytes", 555177988), SP, W("(529.4"), SP, W("MiB)"),
                SP, SP, TX, SP, Ctr("bytes", 19272833), SP, W("(18.3"), SP,
                W("MiB)")>> >>)

\* the lo block of the comment in fetchIfconfig, bytes on separate lines
LoBlock ==
    Concat(<<
      <<W("lo"), SP, W("Link"), SP, W("encap:Local"), SP, W("Loopback"), NL>>,
      Indent, <<RX, SP, Ctr("packets", 1558), SP, Ctr("errors", 0), NL>>,
      Indent, <<TX, SP, Ctr("packets", 1558), SP, Ctr("errors", 0), NL>>,
      Indent, <<RX, SP, Ctr("bytes", 263284), NL>>,
      Indent, <<TX, SP, Ctr("bytes", 263285)>> >>)

BlankLine == <<NL, NL>>

Eth0Block ==
    Concat(<<
      <<W("eth0"), SP, W("Link"), SP, W("encap:Ethernet"), NL>>,
      Indent, <<RX, SP, Ctr("packets", 7), SP, Ctr("dropped", 2), NL>>,
      Indent, <<TX, SP, Ctr("packets", 9), SP, Ctr("carrier", 1)>> >>)

\* the Command text of the interface report served by the device at a locator
ReportAt(loc) ==
    IF loc = LocD1 THEN Concat(<<LoBlock, BlankLine, Eth0Block, BlankLine>>)
    ELSE <<NL, SP, NL>>

\* a datagram: whether http.ReadResponse can parse it, and its ST and
\* Location header values
Datagram(ok, st, location) == [ok |-> ok, st |-> st, location |-> location]

Datagrams ==
    {Datagram(TRUE, <<Query>>, <<LocD1>>),
     Datagram(TRUE, <<OtherST, Query>>, <<LocD2>>),
     Datagram(TRUE, <<OtherST>>, <<LocD1>>),
     Datagram(TRUE, <<Query>>, <<>>),
     Datagram(FALSE, <<>>, <<>>)}

(***************************************************************************)
(* Helpers of the collector.                                               *)
(***************************************************************************)
\* an Inc whose addition is lost
Inc_Lost(n) == n

\* prometheus.Counter.Inc: one atomic addition
Inc(n) == n + 1

\* a Collect that searches whatever c.targets holds
NeedSearch_Always(t) == TRUE

\* len(targets) == 0 in Collect: discovery is needed
NeedSearch(t) == Len(t) = 0

\* a goroutine that signals the barrier twice
Done_Twice(n) == n - 2

\* wg.Done(): the counter goes down by one
Done(n) == n - 1

\* a Collect that does not wait for its goroutines
WaitReturns_Early(n) == TRUE

\* wg.Wait() returns when the counter is zero
WaitReturns(n) == n = 0

\* a loop that takes any response that has an ST header
Accepts_AnyST(dg, query) == dg.st # <<>>

\* the loop over resp.Header["St"]: some value equals the query
Accepts(dg, query) == \E k \in 1 .. Len(dg.st) : dg.st[k] = query

\* http.Header.Get("Location"): the first value, "" when there is none
GetLocation(dg) == IF dg.location = <<>> THEN "" ELSE dg.location[1]

\* a loop that leaves out the responses without a Location header
Locations_SkipEmpty(ds) ==
    SelectSeq([k \in 1 .. Len(ds) |-> GetLocation(ds[k])], LAMBDA l : l # "")

\* the loop over devices that builds locs
RECURSIVE Locations(_)
Locations(ds) ==
    IF ds = <<>> THEN <<>> ELSE <<GetLocation(Head(ds))>> \o Locations(Tail(ds))

NewWorker(loc) ==
    [loc |-> loc, pc |-> "parse", urlRes |-> "none", d |-> NoDevice,
     devRes |-> "none", ifRes |-> "none", ifaces |-> EmptyMap, todo |-> {},
     incs |-> 0, devGets |-> 0, ifGets |-> 0]

\* a sample sent on ch; w names the sending worker and is not part of the
\* metric, device is <<>> and info the remaining labels for sonos_speaker
Sample(w, metric, value, room, device, serial, info) ==
    [w |-> w, metric |-> metric, value |-> value, room |-> room,
     device |-> device, serial |-> serial, info |-> info]

SpeakerInfo(w, d) ==
    Sample(w, "sonos_speaker", 1, d.RoomName, <<>>, d.SerialNum,
           <<d.DisplayVersion, d.HardwareVersion, d.ModelName, d.ModelNumber,
             d.SoftwareVersion, d.UDN>>)

\* the twelve metrics in the order collect sends them, with their field
CounterMetrics ==
    << <<"sonos_rx_bytes_total", "rxBytes">>,
       <<"sonos_rx_packets_total", "rxPackets">>,
       <<"sonos_rx_packet_errors_total", "rxPacketErrors">>,
       <<"sonos_rx_packet_drops_total", "rxPacketDrops">>,
       <<"sonos_rx_packet_overruns_total", "rxPacketOverruns">>,
       <<"sonos_rx_packet_frames_total", "rxPacketFrames">>,
       <<"sonos_tx_bytes_total", "txBytes">>,
       <<"sonos_tx_packets_total", "txPackets">>,
       <<"sonos_tx_packet_errors_total", "txPacketErrors">>,
       <<"sonos_tx_packet_drops_total", "txPacketDrops">>,
       <<"sonos_tx_packet_overruns_total", "txPacketOverruns">>,
       <<"sonos_tx_packet_carriers_total", "txPacketCarriers">> >>

\* the samples of one iteration of the loop over ifaces
CounterSamples(w, d, device, st) ==
    {Sample(w, CounterMetrics[k][1], st[CounterMetrics[k][2]], d.RoomName,
            device, d.SerialNum, <<>>) : k \in 1 .. Len(CounterMetrics)}

\* a worker whose collect hit one of its three error returns
Failed(wk) ==
    \/ wk.urlRes = "error"
    \/ wk.devRes \in {"transport", "decode"}
    \/ wk.ifRes \in {"transport", "decode"}

FailedWorkers == {i \in DOMAIN workers : Failed(workers[i])}

(***************************************************************************)
(* Initial state: the collector as newCollector returns it, no cycle yet.  *)
(***************************************************************************)
StaticLists ==
    UNION {[1 .. n -> StaticLocators] : n \in 0 .. MaxTargets}

Init ==
    /\ targets \in StaticLists
    /\ pc = "idle"
    /\ cycle = 0
    /\ received = <<>>
    /\ devices = <<>>
    /\ locs = <<>>
    /\ searchErr = ""
    /\ readErr = FALSE
    /\ searchCalls = 0
    /\ resolved = <<>>
    /\ launched = 0
    /\ wg = 0
    /\ workers = <<>>
    /\ sink = EmptyBag
    /\ collectionErrors = 0
    /\ observations = 0
    /\ errorsAtStart = 0
    /\ history = [search |-> 0, target |-> 0]
    /\ text = <<>>
    /\ ppc = "idle"
    /\ got = <<>>
    /\ ret = EmptyMap

(***************************************************************************)
(* Collect (src/main.go:184-211) and Search (src/main.go:214-275).         *)
(***************************************************************************)
\* what the cycle that just ended adds to the failures seen since start
HistoryNow ==
    [search |-> history.search + (IF searchErr # "" THEN 1 ELSE 0),
     target |-> history.target + Cardinality(FailedWorkers)]

\* Collect is called: start := time.Now(); targets := c.targets; the test
\* of len(targets); with static targets wg.Add(len(targets))
CollectStart ==
    /\ pc \in {"idle", "done"}
    /\ cycle < MaxCycles
    /\ cycle' = cycle + 1
    /\ errorsAtStart' = collectionErrors
    /\ history' = HistoryNow
    /\ received' = <<>>
    /\ devices' = <<>>
    /\ locs' = <<>>
    /\ searchErr' = ""
    /\ readErr' = FALSE
    /\ launched' = 0
    /\ workers' = <<>>
    /\ sink' = EmptyBag
    /\ IF NeedSearch(targets)
       THEN /\ pc' = "Search"
            /\ searchCalls' = searchCalls + 1
            /\ resolved' = <<>>
            /\ wg' = 0
       ELSE /\ pc' = "launch"
            /\ searchCalls' = searchCalls
            /\ resolved' = targets
            /\ wg' = Len(targets)
    /\ UNCHANGED <<targets, collectionErrors, observations>>
    /\ UNCHANGED parseVars

\* Search returns an error: ListenUDP, ResolveUDPAddr or WriteTo failed
SearchFail ==
    /\ pc = "Search"
    /\ \E e \in {"ListenUDP", "ResolveUDPAddr", "WriteTo"} : searchErr' = e
    /\ pc' = "searchRet"
    /\ UNCHANGED <<targets, cycle, received, devices, locs, readErr, searchCalls,
                   resolved, launched, wg, workers, sink, collectionErrors,
                   observations, errorsAtStart, history>>
    /\ UNCHANGED parseVars

\* the query is sent and the deadline set
SearchSend ==
    /\ pc = "Search"
    /\ pc' = "read"
    /\ UNCHANGED <<targets, cycle, received, devices, locs, searchErr, readErr,
                   searchCalls, resolved, launched, wg, workers, sink,
                   collectionErrors, observations, errorsAtStart, history>>
    /\ UNCHANGED parseVars

\* one iteration of the read loop on a datagram: http.ReadResponse, then
\* resp.Body.Close() (resp is nil when ReadResponse failed: the call
\* panics), then the loop over the ST values
SearchRead ==
    /\ pc = "read"
    /\ Len(received) < MaxDatagrams
    /\ \E dg \in Datagrams :
        /\ received' = Append(received, dg)
        /\ IF ~dg.ok
           THEN /\ pc' = "panic"
                /\ devices' = devices
           ELSE /\ pc' = "read"
                /\ devices' = IF Accepts(dg, Query) THEN Append(devices, dg)
                              ELSE devices
    /\ UNCHANGED <<targets, cycle, locs, searchErr, readErr, searchCalls, resolved,
                   launched, wg, workers, sink, collectionErrors,
                   observations, errorsAtStart, history>>
    /\ UNCHANGED parseVars

\* a Search that returns the error of ReadFrom
SearchReturn_ReadErrorFails ==
    /\ pc = "read"
    /\ \E timeout \in BOOLEAN :
        /\ readErr' = ~timeout
        /\ searchErr' = IF timeout THEN searchErr ELSE "ReadFrom"
        /\ locs' = IF timeout THEN Locations(devices) ELSE locs
    /\ pc' = "searchRet"
    /\ UNCHANGED <<targets, cycle, received, devices, searchCalls,
                   resolved, launched, wg, workers, sink, collectionErrors,
                   observations, errorsAtStart, history>>
    /\ UNCHANGED parseVars

\* ReadFrom fails, by the deadline (err.Timeout()) or otherwise (logged):
\* either way the loop ends and Search returns the locations of the
\* accepted responses and a nil error
SearchReturn ==
    /\ pc = "read"
    /\ \E timeout \in BOOLEAN : readErr' = ~timeout
    /\ locs' = Locations(devices)
    /\ pc' = "searchRet"
    /\ UNCHANGED <<targets, cycle, received, devices, searchErr, searchCalls,
                   resolved, launched, wg, workers, sink, collectionErrors,
                   observations, errorsAtStart, history>>
    /\ UNCHANGED parseVars

\* an error branch that counts the failed search twice
CollectSearchErr_Twice ==
    /\ pc = "searchRet"
    /\ searchErr # ""
    /\ collectionErrors' = Inc(Inc(collectionErrors))
    /\ pc' = "done"
    /\ UNCHANGED <<targets, cycle, received, devices, locs, searchErr, readErr,
                   searchCalls, resolved, launched, wg, workers, sink,
                   observations, errorsAtStart, history>>
    /\ UNCHANGED parseVars

\* err != nil after Search: log, Inc, return
CollectSearchErr ==
    /\ pc = "searchRet"
    /\ searchErr # ""
    /\ collectionErrors' = Inc(collectionErrors)
    /\ pc' = "done"
    /\ UNCHANGED <<targets, cycle, received, devices, locs, searchErr, readErr,
                   searchCalls, resolved, launched, wg, workers, sink,
                   observations, errorsAtStart, history>>
    /\ UNCHANGED parseVars

\* an append that stores the found locators in c.targets
CollectAppend_Persist ==
    /\ pc = "searchRet"
    /\ searchErr = ""
    /\ resolved' = targets \o locs
    /\ targets' = targets \o locs
    /\ wg' = Len(resolved')
    /\ pc' = "launch"
    /\ received' = <<>>
    /\ devices' = <<>>
    /\ readErr' = FALSE
    /\ UNCHANGED <<cycle, locs, searchErr, searchCalls, launched,
                   workers, sink, collectionErrors, observations,
                   errorsAtStart, history>>
    /\ UNCHANGED parseVars

\* targets = append(targets, found...); wg.Add(len(targets))
CollectAppend ==
    /\ pc = "searchRet"
    /\ searchErr = ""
    /\ resolved' = targets \o locs
    /\ wg' = Len(resolved')
    /\ pc' = "launch"
    /\ received' = <<>>
    /\ devices' = <<>>
    /\ readErr' = FALSE
    /\ UNCHANGED <<targets, cycle, locs, searchErr, searchCalls, launched,
                   workers, sink, collectionErrors, observations,
                   errorsAtStart, history>>
    /\ UNCHANGED parseVars

\* a loop that starts no goroutine for a locator that already has one
CollectLaunch_Dedup ==
    /\ pc = "launch"
    /\ launched < Len(resolved)
    /\ launched' = launched + 1
    /\ workers' = IF \E i \in DOMAIN workers :
                        workers[i].loc = resolved[launched + 1]
                  THEN workers
                  ELSE Append(workers, NewWorker(resolved[launched + 1]))
    /\ UNCHANGED <<targets, pc, cycle, received, devices, locs, searchErr,
                   readErr, searchCalls, resolved, wg, sink, collectionErrors,
                   observations, errorsAtStart, history>>
    /\ UNCHANGED parseVars

\* one iteration of the loop over targets: go func(target) {...}(target)
CollectLaunch ==
    /\ pc = "launch"
    /\ launched < Len(resolved)
    /\ launched' = launched + 1
    /\ workers' = Append(workers, NewWorker(resolved[launched + 1]))
    /\ UNCHANGED <<targets, pc, cycle, received, devices, locs, searchErr, readErr,
                   searchCalls, resolved, wg, sink, collectionErrors,
                   observations, errorsAtStart, history>>
    /\ UNCHANGED parseVars

\* a Collect that observes the duration only when it had targets
CollectObserve_SkipEmpty ==
    /\ pc = "launch"
    /\ launched = Len(resolved)
    /\ WaitReturns(wg)
    /\ observations' = IF resolved = <<>> THEN observations
                       ELSE observations + 1
    /\ pc' = "done"
    /\ UNCHANGED <<targets, cycle, received, devices, locs, searchErr, readErr,
                   searchCalls, resolved, launched, wg, workers, sink,
                   collectionErrors, errorsAtStart, history>>
    /\ UNCHANGED parseVars

\* a Collect that counts a fan-out over no target as an error
CollectObserve_EmptyIsError ==
    /\ pc = "launch"
    /\ launched = Len(resolved)
    /\ WaitReturns(wg)
    /\ observations' = observations + 1
    /\ collectionErrors' = IF resolved = <<>> THEN Inc(collectionErrors)
                           ELSE collectionErrors
    /\ pc' = "done"
    /\ UNCHANGED <<targets, cycle, received, devices, locs, searchErr,
                   readErr, searchCalls, resolved, launched, wg, workers,
                   sink, errorsAtStart, history>>
    /\ UNCHANGED parseVars

\* wg.Wait() returns; c.collectionDuration.Observe(...); Collect returns
CollectObserve ==
    /\ pc = "launch"
    /\ launched = Len(resolved)
    /\ WaitReturns(wg)
    /\ observations' = observations + 1
    /\ pc' = "done"
    /\ UNCHANGED <<targets, cycle, received, devices, locs, searchErr, readErr,
                   searchCalls, resolved, launched, wg, workers, sink,
                   collectionErrors, errorsAtStart, history>>
    /\ UNCHANGED parseVars

(***************************************************************************)
(* collect (src/main.go:277-422), one goroutine per target.                *)
(***************************************************************************)
workerFrame == <<targets, pc, cycle, received, devices, locs, searchErr, readErr,
                 searchCalls, resolved, launched, observations,
                 errorsAtStart, history, text, ppc, got, ret>>

\* an error return that ends the wait of Collect for the other goroutines
ErrorReturn_Abort(i, wk) ==
    /\ workers' = [workers EXCEPT ![i] =
                      [wk EXCEPT !.pc = "done", !.incs = @ + 1]]
    /\ collectionErrors' = Inc(collectionErrors)
    /\ wg' = 0
    /\ UNCHANGED sink

\* an error return of collect: log, c.collectionErrors.Inc(), return; then
\* the goroutine calls wg.Done()
ErrorReturn(i, wk) ==
    /\ workers' = [workers EXCEPT ![i] =
                      [wk EXCEPT !.pc = "done", !.incs = @ + 1]]
    /\ collectionErrors' = Inc(collectionErrors)
    /\ wg' = Done(wg)
    /\ UNCHANGED sink

\* base, err := url.Parse(loc)
WorkerParse(i) ==
    /\ workers[i].pc = "parse"
    /\ IF UrlParseFails(workers[i].loc)
       THEN ErrorReturn(i, [workers[i] EXCEPT !.urlRes = "error"])
       ELSE /\ workers' = [workers EXCEPT ![i].urlRes = "ok",
                                          ![i].pc = "fetchDevice"]
            /\ UNCHANGED <<wg, sink, collectionErrors>>
    /\ UNCHANGED workerFrame

\* the outcomes http.Get and the XML decoder can have for a locator
FetchOutcomes(loc) ==
    IF GetAlwaysFails(loc) THEN {"transport"} ELSE {"ok", "transport", "decode"}

\* a collect that goes on with the descriptor when only its decode failed
WorkerFetchDevice_IgnoreDecode(i) ==
    /\ workers[i].pc = "fetchDevice"
    /\ \E r \in FetchOutcomes(workers[i].loc) :
        IF r = "transport"
        THEN ErrorReturn(i, [workers[i] EXCEPT !.devRes = r,
                                                !.devGets = @ + 1])
        ELSE /\ workers' = [workers EXCEPT ![i].devRes = r,
                                           ![i].devGets = @ + 1,
                                           ![i].d = DeviceAt(workers[i].loc),
                                           ![i].pc = "sendInfo"]
             /\ UNCHANGED <<wg, sink, collectionErrors>>
    /\ UNCHANGED workerFrame

\* a collect that fetches the report before it sends the identity sample
WorkerFetchDevice_SkipInfo(i) ==
    /\ workers[i].pc = "fetchDevice"
    /\ \E r \in FetchOutcomes(workers[i].loc) :
        IF r # "ok"
        THEN ErrorReturn(i, [workers[i] EXCEPT !.devRes = r,
                                                !.devGets = @ + 1])
        ELSE /\ workers' = [workers EXCEPT ![i].devRes = "ok",
                                           ![i].devGets = @ + 1,
                                           ![i].d = DeviceAt(workers[i].loc),
                                           ![i].pc = "fetchIfconfig"]
             /\ UNCHANGED <<wg, sink, collectionErrors>>
    /\ UNCHANGED workerFrame

\* a collect that requests the descriptor a second time after a transport
\* failure
WorkerFetchDevice_Retry(i) ==
    /\ workers[i].pc = "fetchDevice"
    /\ \E r \in FetchOutcomes(workers[i].loc) :
        IF r = "transport" /\ workers[i].devGets = 0
        THEN /\ workers' = [workers EXCEPT ![i].devRes = r,
                                           ![i].devGets = @ + 1]
             /\ UNCHANGED <<wg, sink, collectionErrors>>
        ELSE IF r # "ok"
        THEN ErrorReturn(i, [workers[i] EXCEPT !.devRes = r,
                                                !.devGets = @ + 1])
        ELSE /\ workers' = [workers EXCEPT ![i].devRes = "ok",
                                           ![i].devGets = @ + 1,
                                           ![i].d = DeviceAt(workers[i].loc),
                                           ![i].pc = "sendInfo"]
             /\ UNCHANGED <<wg, sink, collectionErrors>>
    /\ UNCHANGED workerFrame

\* d, err := fetchDevice(base): err is the transport or the decode error
WorkerFetchDevice(i) ==
    /\ workers[i].pc = "fetchDevice"
    /\ \E r \in FetchOutcomes(workers[i].loc) :
        IF r # "ok"
        THEN ErrorReturn(i, [workers[i] EXCEPT !.devRes = r,
                                                !.devGets = @ + 1])
        ELSE /\ workers' = [workers EXCEPT ![i].devRes = "ok",
                                           ![i].devGets = @ + 1,
                                           ![i].d = DeviceAt(workers[i].loc),
                                           ![i].pc = "sendInfo"]
             /\ UNCHANGED <<wg, sink, collectionErrors>>
    /\ UNCHANGED workerFrame

\* ch <- the sonos_speaker sample
WorkerSendInfo(i) ==
    /\ workers[i].pc = "sendInfo"
    /\ sink' = sink (+) SetToBag({SpeakerInfo(i, workers[i].d)})
    /\ workers' = [workers EXCEPT ![i].pc = "fetchIfconfig"]
    /\ UNCHANGED <<wg, collectionErrors>>
    /\ UNCHANGED workerFrame

\* root.Command after the decode: the report, or what was decoded of it
\* before the decode error
DecodedCommands(loc, r) ==
    IF r = "ok" THEN {ReportAt(loc)} ELSE {<<>>, ReportAt(loc)}

\* ifaces, err := fetchIfconfig(base): nil and the transport error, or the
\* parsed map and the error of the decode (nil when it succeeded); collect
\* reads the map only when err is nil
WorkerFetchIfconfig(i) ==
    /\ workers[i].pc = "fetchIfconfig"
    /\ \E r \in FetchOutcomes(workers[i].loc) :
        IF r = "transport"
        THEN ErrorReturn(i, [workers[i] EXCEPT !.ifRes = r,
                                                !.ifGets = @ + 1])
        ELSE \E command \in DecodedCommands(workers[i].loc, r) :
                LET m == ParseCommand(command)
                IN  IF r # "ok"
                    THEN ErrorReturn(i, [workers[i] EXCEPT !.ifRes = r,
                                                            !.ifGets = @ + 1])
                    ELSE /\ workers' =
                              [workers EXCEPT ![i].ifRes = "ok",
                                              ![i].ifGets = @ + 1,
                                              ![i].ifaces = m,
                                              ![i].todo = DOMAIN m,
                                              ![i].pc = "range"]
                         /\ UNCHANGED <<wg, sink, collectionErrors>>
    /\ UNCHANGED workerFrame

\* an iteration that labels its samples from a descriptor shared by the
\* goroutines of the cycle
WorkerSendStats_SharedDescriptor(i) ==
    /\ workers[i].pc = "range"
    /\ \E device \in workers[i].todo :
        /\ sink' = sink (+) SetToBag(CounterSamples(i, workers[1].d, device,
                                                   workers[i].ifaces[device]))
        /\ workers' = [workers EXCEPT ![i].todo = @ \ {device}]
    /\ UNCHANGED <<wg, collectionErrors>>
    /\ UNCHANGED workerFrame

\* one iteration of the loop over ifaces, in the order the map yields them:
\* the twelve counter samples of one interface
WorkerSendStats(i) ==
    /\ workers[i].pc = "range"
    /\ \E device \in workers[i].todo :
        /\ sink' = sink (+) SetToBag(CounterSamples(i, workers[i].d, device,
                                                   workers[i].ifaces[device]))
        /\ workers' = [workers EXCEPT ![i].todo = @ \ {device}]
    /\ UNCHANGED <<wg, collectionErrors>>
    /\ UNCHANGED workerFrame

\* the loop over ifaces is over: collect returns, the goroutine calls
\* wg.Done()
WorkerReturn(i) ==
    /\ workers[i].pc = "range"
    /\ workers[i].todo = {}
    /\ wg' = Done(wg)
    /\ workers' = [workers EXCEPT ![i].pc = "done"]
    /\ UNCHANGED <<sink, collectionErrors>>
    /\ UNCHANGED workerFrame

\* the scheduler runs the next step of some goroutine of the cycle
RunParse == \E i \in DOMAIN workers : WorkerParse(i)
RunFetchDevice == \E i \in DOMAIN workers : WorkerFetchDevice(i)
RunSendInfo == \E i \in DOMAIN workers : WorkerSendInfo(i)
RunFetchIfconfig == \E i \in DOMAIN workers : WorkerFetchIfconfig(i)
RunSendStats == \E i \in DOMAIN workers : WorkerSendStats(i)
RunReturn == \E i \in DOMAIN workers : WorkerReturn(i)

Next ==
    \/ CollectStart
    \/ SearchFail
    \/ SearchSend
    \/ SearchRead
    \/ SearchReturn
    \/ CollectSearchErr
    \/ CollectAppend
    \/ CollectLaunch
    \/ CollectObserve
    \/ RunParse
    \/ RunFetchDevice
    \/ RunSendInfo
    \/ RunFetchIfconfig
    \/ RunSendStats
    \/ RunReturn

Spec == Init /\ [][Next]_vars

(***************************************************************************)
(* Runs of the parser alone: TestMain_RegexpFloat applies regexpFloat with *)
(* each pattern to a text, fetchIfconfig builds the map from it.  The      *)
(* texts are the fixed blocks above and blocks generated from the lines an *)
(* ifconfig report is made of, in every order.                             *)
(***************************************************************************)
\* the number written after a keyword of a direction in variant v of the
\* generated lines: variant 0 has the numbers of the br0 block of the test
Value(dir, kw, v) ==
    IF v = 0
    THEN CASE dir = "RX" /\ kw = "bytes" -> 555177988
           [] dir = "RX" /\ kw = "packets" -> 591245
           [] dir = "RX" /\ kw = "dropped" -> 9258
           [] dir = "TX" /\ kw = "bytes" -> 19272833
           [] dir = "TX" /\ kw = "packets" -> 30434
           [] OTHER -> 0
    ELSE 100 * v + (IF dir = "RX" THEN 0 ELSE 10)
         + (CASE kw = "bytes" -> 1 [] kw = "packets" -> 2 [] kw = "errors" -> 3
              [] kw = "dropped" -> 4 [] kw = "overruns" -> 5 [] OTHER -> 6)

Tag(dir) == IF dir = "RX" THEN RX ELSE TX

PacketsLine(dir, v) ==
    <<Tag(dir), SP, Ctr("packets", Value(dir, "packets", v)), SP,
      Ctr("errors", Value(dir, "errors", v)), SP,
      Ctr("dropped", Value(dir, "dropped", v)), SP,
      Ctr("overruns", Value(dir, "overruns", v)), SP,
      IF dir = "RX" THEN Ctr("frame", Value(dir, "frame", v))
      ELSE Ctr("carrier", Value(dir, "carrier", v))>>

BytesPart(dir, v) ==
    <<Tag(dir), SP, Ctr("bytes", Value(dir, "bytes", v)), SP, W("(1.0"), SP,
      W("MiB)")>>

\* the lines a block is generated from
LineKinds == {"rx", "tx", "bytes", "bytesTxFirst", "rxBytes", "txBytes"}

Line(kind, v) ==
    CASE kind = "rx" -> PacketsLine("RX", v)
      [] kind = "tx" -> PacketsLine("TX", v)
      [] kind = "bytes" -> BytesPart("RX", v) \o <<SP, SP>> \o BytesPart("TX", v)
      [] kind = "bytesTxFirst" ->
            BytesPart("TX", v) \o <<SP, SP>> \o BytesPart("RX", v)
      [] kind = "rxBytes" -> BytesPart("RX", v)
      [] kind = "txBytes" -> BytesPart("TX", v)

RECURSIVE Lines(_, _)
Lines(kinds, v) ==
    IF kinds = <<>> THEN <<>>
    ELSE <<NL>> \o Indent \o Line(Head(kinds), v) \o Lines(Tail(kinds), v)

GeneratedBlock(kinds, v) ==
    <<W("br0"), SP, W("Link"), SP, W("encap:Ethernet")>> \o Lines(kinds, v)

\* sequences of distinct lines
LineOrders ==
    UNION {{ks \in [1 .. n -> LineKinds] :
               \A a, b \in 1 .. n : a # b => ks[a] # ks[b]} :
           n \in 0 .. MaxLines}

\* a block whose name is followed by a tab
TabBlock ==
    Concat(<<
      <<W("eth0"), TAB, W("Link"), SP, W("encap:Ethernet"), NL>>,
      Indent, <<RX, SP, Ctr("packets", 7), SP, Ctr("dropped", 2)>> >>)

\* a block whose first line is the name alone
BareNameBlock ==
    Concat(<<
      <<W("eth0"), NL>>,
      Indent, <<RX, SP, Ctr("packets", 7), SP, Ctr("dropped", 2)>> >>)

\* a report with a block that starts with the indentation of a counter line
IndentedReport ==
    Concat(<<
      LoBlock, BlankLine,
      Indent, <<TX, SP, Ctr("packets", 9), SP, Ctr("carrier", 1)>> >>)

ParseInputs ==
    {Br0Block, LoBlock, ReportAt(LocD1), ReportAt(LocD2), <<>>,
     TabBlock, BareNameBlock, IndentedReport,
     <<NL>>, <<NL, NL>>, <<NL, NL, NL>>, <<SP, TAB, NL, NL, TAB>>}
    \cup {GeneratedBlock(ks, v) : ks \in LineOrders, v \in 0 .. MaxVariant}

\* no collector runs; a text has been decoded
InitParse ==
    /\ text \in ParseInputs
    /\ ppc = "input"
    /\ got = <<>>
    /\ ret = EmptyMap
    /\ targets = <<>>
    /\ pc = "off"
    /\ cycle = 0
    /\ received = <<>>
    /\ devices = <<>>
    /\ locs = <<>>
    /\ searchErr = ""
    /\ readErr = FALSE
    /\ searchCalls = 0
    /\ resolved = <<>>
    /\ launched = 0
    /\ wg = 0
    /\ workers = <<>>
    /\ sink = EmptyBag
    /\ collectionErrors = 0
    /\ observations = 0
    /\ errorsAtStart = 0
    /\ history = [search |-> 0, target |-> 0]

\* the loop of TestMain_RegexpFloat: regexpFloat(tt.regex, ifconfigOutput)
RegexpFloatAll ==
    /\ ppc = "input"
    /\ got' = [re \in Patterns |-> regexpFloat(re, text)]
    /\ ppc' = "matched"
    /\ UNCHANGED <<text, ret>>
    /\ UNCHANGED collectVars

\* fetchIfconfig from the decoded root.Command on
FetchIfconfigParse ==
    /\ ppc = "matched"
    /\ ret' = ParseCommand(text)
    /\ ppc' = "parsed"
    /\ UNCHANGED <<text, got>>
    /\ UNCHANGED collectVars

NextParse == RegexpFloatAll \/ FetchIfconfigParse

ParseSpec ==
    InitParse /\ [][NextParse]_vars

(***************************************************************************)
(* What a block says, read as a person reads it: a counter keyword belongs *)
(* to the direction tag that stands nearest before it on its line.         *)
(***************************************************************************)
LineStart(t, j) ==
    LET nls == {k \in 1 .. (j - 1) : t[k].k = "nl"}
    IN  IF nls = {} THEN 1 ELSE Max(nls) + 1

Governing(t, j) ==
    LET tags == {k \in LineStart(t, j) .. (j - 1) : t[k].k \in {"RX", "TX"}}
    IN  IF tags = {} THEN "" ELSE t[Max(tags)].k

\* the positions of the keyword of a pattern under the direction of the pattern
OwnPositions(re, t) ==
    {j \in 1 .. Len(t) : t[j].k = re.kw /\ Governing(t, j) = re.dir}

\* the positions of the same keyword under the other direction
OtherPositions(re, t) ==
    {j \in 1 .. Len(t) : t[j].k = re.kw /\ Governing(t, j) \notin {re.dir, ""}}

NumberAt(t, j) == ParseFloat(t[j].d)

\* a well-formed block with all twelve keywords: each once for its direction
AllTwelve(t) ==
    /\ \A k \in 1 .. (Len(t) - 1) : ~(t[k].k = "nl" /\ t[k + 1].k = "nl")
    /\ \A re \in Patterns : Cardinality(OwnPositions(re, t)) = 1

\* the block from which fetchIfconfig filled the entry of a name
BlockOf(name, command) ==
    LET blocks == Split(command)
        at == {k \in 1 .. Len(blocks) :
                  ~IsBlank(blocks[k]) /\ ifaceName(blocks[k]) = name}
    IN  blocks[Max(at)]

\* C6: for every well-formed block with all twelve counter keywords, also
\* with RX bytes and TX bytes on one line and whatever the order of the
\* lines, regexpFloat with each of the twelve patterns yields the number
\* that follows the keyword of the pattern under the direction of the
\* pattern; for the br0 block of the test these are rxBytes 555177988,
\* rxPackets 591245, rxPacketDrops 9258, txBytes 19272833, txPackets 30434
\* and 0 for the other seven.
C6_RegexpFloatExact ==
    ppc \in {"matched", "parsed"} =>
        /\ AllTwelve(text) =>
              \A re \in Patterns :
                 \A j \in OwnPositions(re, text) : got[re] = NumberAt(text, j)
        /\ text = Br0Block =>
              /\ got[rxBytesRe] = 555177988
              /\ got[rxPacketsRe] = 591245
              /\ got[rxPacketDropsRe] = 9258
              /\ got[txBytesRe] = 19272833
              /\ got[txPacketsRe] = 30434
              /\ \A re \in Patterns \ {rxBytesRe, rxPacketsRe, rxPacketDropsRe,
                                       txBytesRe, txPacketsRe} : got[re] = 0

\* C7: a counter of the map built by fetchIfconfig never holds a number of
\* the same-named keyword of the other direction: a number other than zero
\* stored for a pattern that follows that keyword under the other direction
\* in the block also follows it under the direction of the pattern.
C7_NoDirectionConflation ==
    ppc = "parsed" =>
        \A name \in DOMAIN ret : \A re \in Patterns :
            LET b == BlockOf(name, text)
                v == ret[name][FieldOf(re)]
            IN  (v # 0 /\ \E j \in OtherPositions(re, b) : NumberAt(b, j) = v)
                => \E j \in OwnPositions(re, b) : NumberAt(b, j) = v

(***************************************************************************)
(* The cycle as seen from outside.                                         *)
(***************************************************************************)
\* Collect has returned from a cycle that got past target resolution
FanOutEnded == pc = "done" /\ searchErr = ""

FetchFailures == {"transport", "decode"}

\* the target at position i failed by itself: its locator or one of its fetches
OwnFailure(i) ==
    \/ workers[i].urlRes = "error"
    \/ workers[i].devRes \in FetchFailures
    \/ workers[i].ifRes \in FetchFailures

BothFetchesOk(i) == workers[i].devRes = "ok" /\ workers[i].ifRes = "ok"

\* the samples the device at a locator stands for: its identity and the
\* twelve counters of every interface of its report
SamplesOf(i, loc) ==
    LET m == ParseCommand(ReportAt(loc))
    IN  {SpeakerInfo(i, DeviceAt(loc))}
        \cup UNION {CounterSamples(i, DeviceAt(loc), device, m[device]) :
                    device \in DOMAIN m}

FullyEmitted(i) == \A smp \in SamplesOf(i, resolved[i]) : CopiesIn(smp, sink) >= 1

\* the targets for which some sample was sent
EmittedDevices == {i \in DOMAIN workers : \E smp \in BagToSet(sink) : smp.w = i}

\* C1: when a cycle ends, every target of the resolved list has either
\* failed by itself (malformed locator, failed descriptor fetch or failed
\* report fetch) or had both fetches succeed and its identity sample and
\* every counter sample of its interfaces sent: no target is kept from
\* emitting by another one.
C1_Isolation ==
    FanOutEnded =>
        /\ Len(workers) = Len(resolved)
        /\ \A i \in 1 .. Len(resolved) :
              /\ workers[i].loc = resolved[i]
              /\ OwnFailure(i) \/ (BothFetchesOk(i) /\ FullyEmitted(i))

C1_Witness ==
    /\ FanOutEnded
    /\ \E i, j \in DOMAIN workers :
          /\ i < j
          /\ workers[i].devRes = "transport"
          /\ resolved[j] = LocD1
          /\ BothFetchesOk(j)
          /\ FullyEmitted(j)

\* the targets that failed the descriptor fetch or the report fetch
FetchFailed ==
    {i \in DOMAIN workers :
        workers[i].devRes \in FetchFailures \/ workers[i].ifRes \in FetchFailures}

\* C2 as claimed: with N resolved targets of which K fail the descriptor
\* fetch or the report fetch, at least N-K devices have samples emitted and
\* the error counter grows by at least K in the cycle.
C2_Original ==
    FanOutEnded =>
        /\ Cardinality(EmittedDevices) >= Len(resolved) - Cardinality(FetchFailed)
        /\ collectionErrors - errorsAtStart >= Cardinality(FetchFailed)

\* C2 as amended: K also counts the targets whose locator cannot be parsed.
C2_Amended ==
    FanOutEnded =>
        /\ Cardinality(EmittedDevices) >= Len(resolved) - Cardinality(FailedWorkers)
        /\ collectionErrors - errorsAtStart >= Cardinality(FailedWorkers)

C2_Witness ==
    /\ FanOutEnded
    /\ Len(resolved) = 2
    /\ \E i \in DOMAIN workers : workers[i].urlRes = "error"
    /\ Cardinality(FetchFailed) = 0
    /\ Cardinality(EmittedDevices) = 1
    /\ collectionErrors - errorsAtStart = 1

\* C3: once Search has failed in a cycle, no worker is launched and no
\* sample is sent in that cycle, and when Collect has returned the error
\* counter is exactly one above its value at the start of the cycle.
C3_SearchFailure ==
    searchErr # "" =>
        /\ workers = <<>>
        /\ launched = 0
        /\ sink = EmptyBag
        /\ pc \in {"searchRet", "done"}
        /\ pc = "searchRet" => collectionErrors = errorsAtStart
        /\ pc = "done" => collectionErrors = errorsAtStart + 1

C3_Witness ==
    /\ searchErr = "WriteTo"
    /\ pc = "done"
    /\ targets = <<>>
    /\ collectionErrors = errorsAtStart + 1

\* C4: with a non-empty static target list Search is never called, and the
\* resolved targets of every cycle, and the workers launched for them, are
\* the static list in its order.
C4_StaticTargets ==
    Len(targets) > 0 =>
        /\ searchCalls = 0
        /\ pc \notin {"Search", "read", "searchRet", "panic"}
        /\ cycle > 0 => resolved = targets
        /\ \A i \in DOMAIN workers : workers[i].loc = targets[i]

C4_Witness ==
    /\ cycle = 2
    /\ pc = "done"
    /\ targets = <<LocD2, LocD1>>
    /\ Len(workers) = 2

\* C5: the duration is observed only in a step taken when every target of
\* the cycle has a worker and every worker has finished.
C5_ObserveAfterJoin ==
    [][observations' # observations =>
          /\ Len(workers) = Len(resolved)
          /\ \A i \in DOMAIN workers : workers[i].pc = "done"]_vars

C5_Witness ==
    /\ observations = 1
    /\ pc = "done"
    /\ Len(workers) = 2
    /\ \E i \in DOMAIN workers : BothFetchesOk(i) /\ FullyEmitted(i)

\* the failed searches that Collect has counted, and the failed targets
CountedFailures ==
    history.search + history.target
    + (IF searchErr # "" /\ pc = "done" THEN 1 ELSE 0)
    + Cardinality(FailedWorkers)

\* C8: the error counter never decreases, it always equals the number of
\* failed searches plus the number of failed targets since the start, and
\* a worker adds one when its target failed and nothing otherwise.
C8_ErrorCounter ==
    /\ [](collectionErrors = CountedFailures)
    /\ [](\A i \in DOMAIN workers :
             workers[i].incs = IF Failed(workers[i]) THEN 1 ELSE 0)
    /\ [][collectionErrors' >= collectionErrors]_vars

C8_Witness ==
    /\ history.search = 1
    /\ Cardinality(FailedWorkers) = 2
    /\ collectionErrors = 3
    /\ pc = "done"

\* C9: a datagram that is no HTTP response is skipped: Search does not
\* crash on it, and returns the locations of the well-formed matching
\* responses read before and after it.
C9_MalformedSkipped ==
    (\E k \in 1 .. Len(received) : ~received[k].ok) =>
        /\ pc # "panic"
        /\ pc = "searchRet" =>
              locs = Locations(SelectSeq(received,
                                         LAMBDA dg : dg.ok /\ Accepts(dg, Query)))

\* a response of which one ST value is the requested service type
Matching(dg) == Query \in {dg.st[k] : k \in 1 .. Len(dg.st)}

\* the Location value of each response of a sequence, "" for none
RECURSIVE LocationValues(_)
LocationValues(ds) ==
    IF ds = <<>> THEN <<>>
    ELSE <<IF Head(ds).location = <<>> THEN "" ELSE Head(ds).location[1]>>
         \o LocationValues(Tail(ds))

\* C10: what Search returns is the Location value of each response read
\* that has an ST value equal to the requested service type, one per such
\* response, in the order of arrival, repetitions kept.
C10_SearchResult ==
    pc = "searchRet" /\ searchErr = "" =>
        locs = LocationValues(SelectSeq(received, Matching))

C10_Witness ==
    /\ pc = "searchRet"
    /\ Len(received) = 2
    /\ received[1].st = <<OtherST>>
    /\ received[2].st = <<OtherST, Query>>
    /\ locs = <<LocD2>>

\* C11: with no static targets, a discovery window in which no matching
\* response is read ends with Search returning no locator and no error;
\* Collect then launches no worker, sends no sample, leaves the error
\* counter as it was at the start of the cycle and is free to finish.
C11_EmptyDiscovery ==
    /\ (/\ pc \in {"read", "panic", "searchRet"}
        /\ searchErr = ""
        /\ \A k \in 1 .. Len(received) : ~Matching(received[k]))
       => /\ pc # "panic"
          /\ pc = "searchRet" => locs = <<>>
    /\ (/\ targets = <<>>
        /\ pc \in {"launch", "done"}
        /\ searchErr = ""
        /\ locs = <<>>)
       => /\ resolved = <<>>
          /\ workers = <<>>
          /\ sink = EmptyBag
          /\ wg = 0
          /\ collectionErrors = errorsAtStart

\* C12: for every block of the report in which some of the twelve keywords
\* do not occur under their direction (and none occurs twice), the entry
\* that fetchIfconfig stores holds zero for each missing keyword and, for
\* each keyword that is present, the number that follows it under its
\* direction.
C12_MissingKeywords ==
    ppc = "parsed" =>
        \A name \in DOMAIN ret :
            LET b == BlockOf(name, text)
            IN  (/\ \E re \in Patterns : OwnPositions(re, b) = {}
                 /\ \A re \in Patterns : Cardinality(OwnPositions(re, b)) <= 1)
                => \A re \in Patterns :
                      /\ OwnPositions(re, b) = {} => ret[name][FieldOf(re)] = 0
                      /\ \A j \in OwnPositions(re, b) :
                            ret[name][FieldOf(re)] = NumberAt(b, j)

\* the samples in the sink that the worker at position i sent
SentBy(i) == {smp \in BagToSet(sink) : smp.w = i}

C14_DescriptorFailure ==
    \A i \in DOMAIN workers :
        workers[i].devRes \in FetchFailures =>
            /\ workers[i].pc = "done"
            /\ SentBy(i) = {}
            /\ workers[i].incs = 1
            /\ workers[i].ifRes = "none"

C14_Witness ==
    /\ FanOutEnded
    /\ \E i, j \in DOMAIN workers :
          /\ workers[i].devRes = "transport"
          /\ workers[j].devRes = "decode"
    /\ sink = EmptyBag
    /\ collectionErrors = errorsAtStart + 2

\* the identity samples in the sink that the worker at position i sent
IdentitySentBy(i) == {smp \in SentBy(i) : smp.metric = "sonos_speaker"}

\* C15: from the moment a worker is about to request the interface report
\* its identity sample is in the sink, once; and a worker whose report
\* fetch failed has returned with that identity sample as its only sample
\* and the error counter incremented once.
C15_IdentityBeforeReport ==
    \A i \in DOMAIN workers :
        /\ (workers[i].pc \in {"fetchIfconfig", "range"}
             \/ workers[i].ifRes # "none")
           => /\ Cardinality(IdentitySentBy(i)) = 1
              /\ \A smp \in IdentitySentBy(i) : CopiesIn(smp, sink) = 1
        /\ workers[i].ifRes \in FetchFailures
           => /\ workers[i].pc = "done"
              /\ SentBy(i) = IdentitySentBy(i)
              /\ workers[i].incs = 1

C15_Witness ==
    /\ FanOutEnded
    /\ \E i \in DOMAIN workers :
          /\ workers[i].ifRes = "transport"
          /\ Cardinality(SentBy(i)) = 1
          /\ workers[i].incs = 1

\* C16: the interface-stats step of collect counts a target as failed only
\* for a transport failure: a worker whose report could not be decoded has
\* not incremented the error counter.
C16_DecodeNotFailure ==
    \A i \in DOMAIN workers :
        (workers[i].devRes = "ok" /\ workers[i].ifRes # "none") =>
            workers[i].incs = (IF workers[i].ifRes = "transport" THEN 1 ELSE 0)

\* the first whitespace-delimited token of a block: its tokens up to the
\* first space, tab or newline
FirstToken(b) ==
    LET ws == {i \in 1 .. Len(b) : b[i].k \in {"sp", "tab", "nl"}}
    IN  IF ws = {} THEN b ELSE SubSeq(b, 1, Min(ws) - 1)

\* the blocks of a report that are not blank
NonEmptyBlocks(command) ==
    LET blocks == Split(command)
    IN  {blocks[k] : k \in {j \in 1 .. Len(blocks) : ~IsBlank(blocks[j])}}

\* C17: the keys of the map built by fetchIfconfig are the first
\* whitespace-delimited tokens of the non-empty blocks of the report, and
\* a block that does not start with such a token adds no key.
C17_FirstToken ==
    ppc = "parsed" =>
        DOMAIN ret = {FirstToken(b) : b \in NonEmptyBlocks(text)} \ {<<>>}

\* the steps of Collect and Search themselves
CollectStep ==
    \/ CollectStart
    \/ SearchFail
    \/ SearchSend
    \/ SearchRead
    \/ SearchReturn
    \/ CollectSearchErr
    \/ CollectAppend
    \/ CollectLaunch
    \/ CollectObserve

\* C18: no cycle gets stuck or drops a worker: while Collect has not
\* returned, either a launched goroutine has not finished (its next fetch
\* returns and its next send is accepted, so it can go on) or Collect
\* itself can take a step; and Collect returns from a fan-out only with a
\* worker launched for every target and every worker finished.
C18_CycleTerminates ==
    /\ pc \notin {"idle", "done"} =>
          \/ \E i \in DOMAIN workers : workers[i].pc # "done"
          \/ ENABLED CollectStep
    /\ FanOutEnded =>
          /\ Len(workers) = Len(resolved)
          /\ \A i \in DOMAIN workers : workers[i].pc = "done"

\* C19: the number of duration observations is the number of cycles from
\* which Collect has returned after a successful target resolution: a
\* cycle whose Search failed adds none, a cycle that reached the fan-out
\* adds exactly one when it ends, whatever the number of targets and the
\* number of them that failed.
C19_DurationOnce ==
    cycle >= 1 =>
        observations = (cycle - 1) - history.search
                       + (IF FanOutEnded THEN 1 ELSE 0)

C19_Witness ==
    /\ cycle = 2
    /\ history.search = 1
    /\ FanOutEnded
    /\ resolved = <<>>
    /\ observations = 1

\* the workers that have signalled the barrier
Finished == {i \in DOMAIN workers : workers[i].pc = "done"}

\* C20: from the launch loop on there is one worker per target launched so
\* far, in the order of the targets; the barrier count is the number of
\* targets minus the number of workers that have returned, each having
\* signalled once, so it is never negative and is zero only when a worker
\* of every target has finished; and while Collect has returned no sample
\* is added to the sink.
C20_Barrier ==
    /\ []((pc \in {"launch", "done"} /\ searchErr = "") =>
            /\ Len(workers) = launched
            /\ launched <= Len(resolved)
            /\ \A i \in DOMAIN workers : workers[i].loc = resolved[i]
            /\ wg = Len(resolved) - Cardinality(Finished)
            /\ wg >= 0)
    /\ [][(pc = "done" /\ pc' = "done") => sink' = sink]_vars

C20_Witness ==
    /\ FanOutEnded
    /\ wg = 0
    /\ Len(workers) = 2
    /\ \E i, j \in DOMAIN workers :
          /\ workers[i].urlRes = "error"
          /\ BothFetchesOk(j)
          /\ workers[j].incs = 0

\* C21: when a read error other than a timeout has ended the read loop,
\* Search returns a nil error and the locations of the responses accepted
\* before the error, one per accepted response; the next step of Collect
\* is the fan-out over them, with the error counter left as it is.
C21_ReadErrorNotFatal ==
    /\ [](readErr =>
            /\ pc = "searchRet"
            /\ searchErr = ""
            /\ locs = Locations(devices)
            /\ Len(locs) = Cardinality({k \in 1 .. Len(received) :
                                           Matching(received[k])}))
    /\ [][readErr =>
            /\ pc' = "launch"
            /\ resolved' = locs
            /\ wg' = Len(locs)
            /\ collectionErrors' = collectionErrors]_vars

C21_Witness ==
    /\ readErr
    /\ Len(received) = 2
    /\ locs = <<LocD1>>
    /\ collectionErrors = errorsAtStart

\* C22: in a cycle the worker of a target requests the descriptor at most
\* once and the interface report at most once, whatever the outcome; and
\* every cycle launches a fresh worker for every target, also after cycles
\* in which targets failed: at the end of a fan-out each worker has made
\* its own descriptor request unless its locator did not parse.
C22_NoRetryNoMemory ==
    /\ \A i \in DOMAIN workers :
          /\ workers[i].devGets <= 1
          /\ workers[i].ifGets <= 1
          /\ workers[i].devGets = (IF workers[i].devRes = "none" THEN 0 ELSE 1)
          /\ workers[i].ifGets = (IF workers[i].ifRes = "none" THEN 0 ELSE 1)
    /\ FanOutEnded =>
          /\ Len(workers) = Len(resolved)
          /\ \A i \in DOMAIN workers :
                workers[i].devGets = (IF UrlParseFails(resolved[i]) THEN 0 ELSE 1)

C22_Witness ==
    /\ cycle = 2
    /\ targets = <<LocD1>>
    /\ history.target = 1
    /\ FanOutEnded
    /\ workers[1].devGets = 1
    /\ workers[1].ifGets = 1
    /\ BothFetchesOk(1)

\* C23: no step changes c.targets; the step that starts a cycle starts it
\* with no worker, no sample and no Search result of the cycle before;
\* a descriptor or stats set held by a worker was fetched by that worker
\* in this cycle; and with no static targets Search has been called once
\* per cycle and the fan-out is over the result of the call of this cycle.
C23_NothingPersists ==
    /\ [][targets' = targets]_vars
    /\ [][cycle' # cycle =>
            /\ workers' = <<>>
            /\ locs' = <<>>
            /\ devices' = <<>>
            /\ resolved' = targets]_vars
    /\ [](\A i \in DOMAIN workers :
            /\ workers[i].d # NoDevice => workers[i].devGets = 1
            /\ workers[i].ifaces # EmptyMap => workers[i].ifGets = 1)
    /\ []((targets = <<>> /\ cycle >= 1) =>
            /\ searchCalls = cycle
            /\ (pc \in {"launch", "done"} /\ searchErr = "") =>
                  /\ resolved = locs
                  /\ \A i \in DOMAIN workers : workers[i].loc = locs[i])

C23_Witness ==
    /\ cycle = 2
    /\ targets = <<>>
    /\ searchCalls = 2
    /\ history.target = 1
    /\ FanOutEnded
    /\ resolved = <<>>
    /\ workers = <<>>

\* the labels and value of the samples of a worker, the sender left out
Unsigned(i) == {[smp EXCEPT !.w = 0] : smp \in SentBy(i)}

\* C24: the launch loop starts a worker for every element of the resolved
\* list, repeated locators included; when the fan-out has ended, two
\* occurrences of one locator that both succeeded have each sent the full
\* set of samples of the device, the same labels and values twice.
C24_NoDedup ==
    /\ (pc \in {"launch", "done"} /\ searchErr = "") =>
          /\ Len(workers) = launched
          /\ \A i \in DOMAIN workers : workers[i].loc = resolved[i]
    /\ FanOutEnded =>
          \A i, j \in DOMAIN workers :
              (/\ i # j
               /\ resolved[i] = resolved[j]
               /\ BothFetchesOk(i)
               /\ BothFetchesOk(j))
              => /\ Unsigned(i) = Unsigned(j)
                 /\ Cardinality(SentBy(i)) = Cardinality(SentBy(j))
                 /\ Cardinality(SentBy(i)) =
                       1 + 12 * Cardinality(DOMAIN workers[i].ifaces)
                 /\ \A smp \in SentBy(i) \cup SentBy(j) : CopiesIn(smp, sink) = 1

C24_Witness ==
    /\ FanOutEnded
    /\ resolved = <<LocD1, LocD1>>
    /\ BothFetchesOk(1)
    /\ BothFetchesOk(2)
    /\ Cardinality(SentBy(1)) = 25
    /\ Unsigned(1) = Unsigned(2)

\* C25 as claimed: with no static targets configured a cycle can run with
\* discovery disabled: Search is not called, no sample is sent and the
\* error counter is not incremented.
C25_Original ==
    (targets = <<>> /\ cycle >= 1) =>
        /\ searchCalls = 0
        /\ sink = EmptyBag
        /\ collectionErrors = errorsAtStart

\* C25 as amended: with no static targets every cycle calls Search; a
\* cycle whose Search returned no locator and no error launches no worker,
\* sends no sample and does not increment the error counter.
C25_Amended ==
    (targets = <<>> /\ cycle >= 1) =>
        /\ searchCalls = cycle
        /\ (pc \in {"launch", "done"} /\ searchErr = "" /\ locs = <<>>) =>
              /\ launched = 0
              /\ workers = <<>>
              /\ sink = EmptyBag
              /\ collectionErrors = errorsAtStart

C25_Witness ==
    /\ targets = <<>>
    /\ cycle = 1
    /\ searchCalls = 1
    /\ FanOutEnded
    /\ locs = <<>>
    /\ sink = EmptyBag
    /\ collectionErrors = 0
    /\ observations = 1

\* C26: when Search returns without error its result has one locator per
\* accepted response, the empty string for a response without a Location
\* header; the worker launched for the empty locator ends with no sample
\* sent and the error counter incremented once.
C26_EmptyLocator ==
    /\ (pc = "searchRet" /\ searchErr = "") =>
          /\ Len(locs) = Len(devices)
          /\ Len(locs) = Cardinality({k \in 1 .. Len(received) :
                                         Matching(received[k])})
          /\ \A k \in 1 .. Len(devices) :
                devices[k].location = <<>> => locs[k] = ""
    /\ \A i \in DOMAIN workers :
          (workers[i].loc = "" /\ workers[i].pc = "done") =>
              /\ SentBy(i) = {}
              /\ workers[i].incs = 1

C26_Witness ==
    /\ FanOutEnded
    /\ resolved = <<LocD1, "">>
    /\ BothFetchesOk(1)
    /\ SentBy(2) = {}
    /\ workers[2].incs = 1
    /\ collectionErrors = errorsAtStart + 1

\* a text with zero blocks: empty, or only blanks, tabs and newlines
ZeroBlocks(t) == \A k \in 1 .. Len(t) : t[k].k \in {"sp", "tab", "nl"}

\* C27: fetchIfconfig builds the empty map from a text with zero blocks,
\* and a worker whose report is such a text ends with its identity sample
\* as the only sample sent.
C27_ZeroBlocks ==
    /\ (ppc = "parsed" /\ ZeroBlocks(text)) => ret = EmptyMap
    /\ \A i \in DOMAIN workers :
          (workers[i].ifRes = "ok" /\ ZeroBlocks(ReportAt(workers[i].loc))) =>
              /\ workers[i].ifaces = EmptyMap
              /\ workers[i].todo = {}
              /\ workers[i].pc = "done" =>
                    /\ Cardinality(SentBy(i)) = 1
                    /\ SentBy(i) = IdentitySentBy(i)

C27_Witness ==
    \E i \in DOMAIN workers :
        /\ ZeroBlocks(ReportAt(workers[i].loc))
        /\ workers[i].ifRes = "ok"
        /\ workers[i].pc = "done"
        /\ Cardinality(IdentitySentBy(i)) = 1
        /\ workers[i].incs = 0

====
